---------------------------- MODULE Spec2Model ----------------------------
(***************************************************************************)
(* A model of scripts/validate_resources.py: the validator of              *)
(* resources/talks.yml, resources/papers.yml and resources/tutorials.yml.  *)
(*                                                                         *)
(* A parsed YAML value is a tagged record:                                 *)
(*   [t |-> "null"]  [t |-> "bool", b]  [t |-> "int", i]  [t |-> "float"]  *)
(*   [t |-> "str", s]  [t |-> "list", l]  [t |-> "map", m]                 *)
(* where l is a sequence of values and m a function from string keys to    *)
(* values (mapping keys are strings in this model).                        *)
(* An error message is the record Err(scope, idx, code, key): the context  *)
(* prefix of the message (file, entry i, entry i's event, entry i's        *)
(* artifacts), the kind of message and the key it names.  Indexes are      *)
(* 0-based as in the messages of the program.                              *)
(***************************************************************************)
EXTENDS Integers, Sequences, FiniteSets, TLC

VARIABLES strict, dir_exists, fs, pc, idx, ok_all, any_found, out,
          exit_code, results

vars == <<strict, dir_exists, fs, pc, idx, ok_all, any_found, out,
          exit_code, results>>

----------------------------------------------------------------------------
(* Values *)

VNull == [t |-> "null"]
VBool(b) == [t |-> "bool", b |-> b]
VInt(i) == [t |-> "int", i |-> i]
VFloat == [t |-> "float"]
VStr(s) == [t |-> "str", s |-> s]
VList(l) == [t |-> "list", l |-> l]
VMap(m) == [t |-> "map", m |-> m]

Err(scope, i, code, key) == [scope |-> scope, idx |-> i, code |-> code, key |-> key]

is_str(x) == x.t = "str"

\* is_int with a fault: isinstance(x, int) alone, which a bool satisfies.
is_int_with_bool(x) == x.t \in {"int", "bool"}

\* isinstance(x, int) holds of int and of bool (bool subclasses int).
is_int(x) == x.t \in {"int", "bool"} /\ x.t # "bool"

is_bool(x) == x.t = "bool"

is_list(x) == x.t = "list"

is_dict(x) == x.t = "map"

\* dict.get(key): the value, or None for an absent key.
Get(d, k) == IF k \in DOMAIN d.m THEN d.m[k] ELSE VNull

\* all(is_str(a) for a in xs)
AllStr(xs) == \A j \in 1..Len(xs.l) : is_str(xs.l[j])

----------------------------------------------------------------------------
(* Strings and the two patterns *)

Digits == {"0", "1", "2", "3", "4", "5", "6", "7", "8", "9"}

RepoChars ==
    Digits \cup {"_", ".", "-"} \cup
    {"a", "b", "c", "d", "e", "f", "g", "h", "i", "j", "k", "l", "m",
     "n", "o", "p", "q", "r", "s", "t", "u", "v", "w", "x", "y", "z"} \cup
    {"A", "B", "C", "D", "E", "F", "G", "H", "I", "J", "K", "L", "M",
     "N", "O", "P", "Q", "R", "S", "T", "U", "V", "W", "X", "Y", "Z"}

Whitespace == {" ", "\t", "\n", "\r"}

Ch(s, j) == SubSeq(s, j, j)

\* A pattern ending in $ matches at the end of the string or just before a
\* newline that ends it.
DropFinalNewline(s) ==
    IF Len(s) > 0 /\ Ch(s, Len(s)) = "\n" THEN SubSeq(s, 1, Len(s) - 1) ELSE s

IsoDateCore(s) ==
    /\ Len(s) = 10
    /\ \A j \in {1, 2, 3, 4, 6, 7, 9, 10} : Ch(s, j) \in Digits
    /\ Ch(s, 5) = "-"
    /\ Ch(s, 8) = "-"

ISO_DATE_RE(s) == IsoDateCore(s) \/ IsoDateCore(DropFinalNewline(s))

RepoCore(s) ==
    \E j \in 2..(Len(s) - 1) :
        /\ Ch(s, j) = "/"
        /\ \A k \in (1..Len(s)) \ {j} : Ch(s, k) \in RepoChars

REPO_RE(s) == RepoCore(s) \/ RepoCore(DropFinalNewline(s))

\* path_value.strip() == ""
StripIsEmpty(s) == \A j \in 1..Len(s) : Ch(s, j) \in Whitespace

\* "://" in path_value
HasScheme(s) == \E j \in 1..(Len(s) - 2) : SubSeq(s, j, j + 2) = "://"

\* TALK_STATUS with a fault: one value left out.
TALK_STATUS_without_delivered == {"draft", "idea", "planned", "ready", "archived"}

TALK_STATUS == {"draft", "idea", "planned", "ready", "delivered", "archived"}
PAPER_STATUS == {"idea", "in_preparation", "submitted", "accepted", "published", "archived"}
TUTORIAL_STATUS == {"idea", "planned", "draft", "ready", "archived"}
TUTORIAL_LEVEL == {"beginner", "intermediate", "advanced"}
TUTORIAL_FORMAT == {"notebook", "markdown", "workshop"}

TALK_KEYS == <<"id", "title", "authors", "role", "event", "path", "tags", "status">>
EVENT_KEYS == <<"name", "location", "date", "duration_min">>
PAPER_KEYS == <<"id", "title", "authors", "year", "venue", "status", "path",
                "primary", "related_repos">>
TUTORIAL_KEYS == <<"id", "title", "level", "format", "est_time_min", "path",
                   "status", "tags">>

----------------------------------------------------------------------------
(* The shared field checks.  Each returns the errors it appends, in order. *)

\* require_keys with a fault: a key whose value is None counts as missing
\* (obj.get(k) is None in place of k not in obj).
RECURSIVE require_keys_none_is_missing(_, _, _, _)
require_keys_none_is_missing(obj, keys, scope, i) ==
    IF keys = <<>> THEN <<>>
    ELSE (IF Get(obj, Head(keys)) # VNull THEN <<>>
          ELSE <<Err(scope, i, "missing", Head(keys))>>)
         \o require_keys_none_is_missing(obj, Tail(keys), scope, i)

RECURSIVE require_keys(_, _, _, _)
require_keys(obj, keys, scope, i) ==
    IF keys = <<>> THEN <<>>
    ELSE (IF Head(keys) \in DOMAIN obj.m THEN <<>>
          ELSE <<Err(scope, i, "missing", Head(keys))>>)
         \o require_keys(obj, Tail(keys), scope, i)

validate_repo_field(repo, scope, i) ==
    IF ~is_str(repo) \/ ~REPO_RE(repo.s)
    THEN <<Err(scope, i, "format", "repo")>> ELSE <<>>

\* validate_tags with a fault: no early return for None.
validate_tags_null_rejected(tags, scope, i) ==
    IF ~is_list(tags) \/ ~AllStr(tags)
    THEN <<Err(scope, i, "type", "tags")>> ELSE <<>>

validate_tags(tags, scope, i) ==
    IF tags = VNull THEN <<>>
    ELSE IF ~is_list(tags) \/ ~AllStr(tags)
         THEN <<Err(scope, i, "type", "tags")>> ELSE <<>>

\* validate_path_field with a fault: None is let through.
validate_path_field_null_ok(path_value, scope, i) ==
    IF path_value = VNull THEN <<>>
    ELSE IF ~is_str(path_value) \/ StripIsEmpty(path_value.s)
         THEN <<Err(scope, i, "type", "path")>>
         ELSE IF HasScheme(path_value.s)
              THEN <<Err(scope, i, "url", "path")>> ELSE <<>>

validate_path_field(path_value, scope, i) ==
    IF ~is_str(path_value) \/ StripIsEmpty(path_value.s)
    THEN <<Err(scope, i, "type", "path")>>
    ELSE IF HasScheme(path_value.s)
         THEN <<Err(scope, i, "url", "path")>> ELSE <<>>

\* if k in obj and not pred(obj[k]): one error
PresentTyped(obj, k, ok, scope, i) ==
    IF k \in DOMAIN obj.m /\ ~ok THEN <<Err(scope, i, "type", k)>> ELSE <<>>

\* if k in obj and obj[k] is not None and not is_str(obj[k]): one error
OptionalStr(obj, k, scope, i) ==
    IF k \in DOMAIN obj.m /\ obj.m[k] # VNull /\ ~is_str(obj.m[k])
    THEN <<Err(scope, i, "type", k)>> ELSE <<>>

\* x = obj.get(k); if not is_str(x) or x not in allowed: one error
EnumField(obj, k, allowed, scope, i) ==
    LET x == Get(obj, k) IN
    IF ~is_str(x) \/ x.s \notin allowed
    THEN <<Err(scope, i, "enum", k)>> ELSE <<>>

\* x = obj.get(k); if not is_list(x) or not all(is_str(a) for a in x): one error
StrListField(obj, k, scope, i) ==
    LET x == Get(obj, k) IN
    IF ~is_list(x) \/ ~AllStr(x)
    THEN <<Err(scope, i, "type", k)>> ELSE <<>>

(* validate_unique_ids: it.get("id") of an entry that is not a mapping      *)
(* raises AttributeError (no parsed YAML value but a mapping has .get).     *)
(* The result is the errors appended so far and whether it raised.          *)
RECURSIVE UniqueIdsFrom(_, _, _, _)
UniqueIdsFrom(items, j, seen, errs) ==
    IF j > Len(items) THEN [raised |-> FALSE, errors |-> errs]
    ELSE LET it == items[j] IN
         IF ~is_dict(it) THEN [raised |-> TRUE, errors |-> errs]
         ELSE LET _id == Get(it, "id") IN
              IF ~is_str(_id) THEN UniqueIdsFrom(items, j + 1, seen, errs)
              ELSE UniqueIdsFrom(items, j + 1, seen \cup {_id.s},
                       IF _id.s \in seen
                       THEN Append(errs, Err("entry", j - 1, "dup", "id"))
                       ELSE errs)

\* validate_unique_ids with a fault: the id is added to seen only when it is
\* not a duplicate, and a duplicate clears it.
validate_unique_ids_pairs(items) ==
    LET F[j \in 0..Len(items)] ==
            IF j = 0 THEN [raised |-> FALSE, errors |-> <<>>, seen |-> {}]
            ELSE LET p == F[j - 1]
                     it == items[j] IN
                 IF p.raised \/ ~is_dict(it) THEN [p EXCEPT !.raised = TRUE]
                 ELSE LET _id == Get(it, "id") IN
                      IF ~is_str(_id) THEN p
                      ELSE IF _id.s \in p.seen
                           THEN [p EXCEPT !.errors = Append(@, Err("entry", j - 1, "dup", "id")),
                                          !.seen = @ \ {_id.s}]
                           ELSE [p EXCEPT !.seen = @ \cup {_id.s}]
    IN [raised |-> F[Len(items)].raised, errors |-> F[Len(items)].errors]

validate_unique_ids(items) == UniqueIdsFrom(items, 1, {}, <<>>)

----------------------------------------------------------------------------
(* The per-kind entry checks: the body of the loop over the entries, for   *)
(* an entry that is a mapping, in the order of the code.                    *)

\* talks: the checks of the event mapping
EventErrors(event, i) ==
    require_keys(event, EVENT_KEYS, "event", i)
    \o PresentTyped(event, "name", is_str(event.m["name"]), "event", i)
    \o PresentTyped(event, "location", is_str(event.m["location"]), "event", i)
    \o (IF "date" \in DOMAIN event.m
           /\ (~is_str(event.m["date"]) \/ ~ISO_DATE_RE(event.m["date"].s))
        THEN <<Err("event", i, "format", "date")>> ELSE <<>>)
    \o PresentTyped(event, "duration_min", is_int(event.m["duration_min"]), "event", i)

\* talks: the optional artifacts mapping, one error per item that is not a
\* string (the keys of a mapping are strings here, so only the values count)
ArtifactsErrors(artifacts, i) ==
    IF artifacts = VNull THEN <<>>
    ELSE IF ~is_dict(artifacts) THEN <<Err("entry", i, "type", "artifacts")>>
    ELSE LET bad == {k \in DOMAIN artifacts.m : ~is_str(artifacts.m[k])}
             F[S \in SUBSET bad] ==
                 IF S = {} THEN <<>>
                 ELSE LET k == CHOOSE x \in S : TRUE IN
                      <<Err("artifacts", i, "type", k)>> \o F[S \ {k}]
         IN F[bad]

TalkEntryErrors(t, i) ==
    require_keys(t, TALK_KEYS, "entry", i)
    \o PresentTyped(t, "id", is_str(t.m["id"]), "entry", i)
    \o PresentTyped(t, "title", is_str(t.m["title"]), "entry", i)
    \o StrListField(t, "authors", "entry", i)
    \o PresentTyped(t, "role", is_str(t.m["role"]), "entry", i)
    \o (IF ~is_dict(Get(t, "event")) THEN <<Err("entry", i, "type", "event")>>
        ELSE EventErrors(Get(t, "event"), i))
    \o validate_path_field(Get(t, "path"), "entry", i)
    \o validate_tags(Get(t, "tags"), "entry", i)
    \o EnumField(t, "status", TALK_STATUS, "entry", i)
    \o ArtifactsErrors(Get(t, "artifacts"), i)
    \o OptionalStr(t, "notes", "entry", i)

\* all(is_str(r) and REPO_RE.match(r) for r in related)
AllRepos(xs) == \A j \in 1..Len(xs.l) : is_str(xs.l[j]) /\ REPO_RE(xs.l[j].s)

PaperEntryErrors(p, i) ==
    require_keys(p, PAPER_KEYS, "entry", i)
    \o PresentTyped(p, "id", is_str(p.m["id"]), "entry", i)
    \o PresentTyped(p, "title", is_str(p.m["title"]), "entry", i)
    \o StrListField(p, "authors", "entry", i)
    \o PresentTyped(p, "year", is_int(p.m["year"]), "entry", i)
    \o PresentTyped(p, "venue", is_str(p.m["venue"]), "entry", i)
    \o EnumField(p, "status", PAPER_STATUS, "entry", i)
    \o validate_path_field(Get(p, "path"), "entry", i)
    \o (IF ~is_bool(Get(p, "primary")) THEN <<Err("entry", i, "type", "primary")>>
        ELSE <<>>)
    \o (IF ~is_list(Get(p, "related_repos")) \/ ~AllRepos(Get(p, "related_repos"))
        THEN <<Err("entry", i, "format", "related_repos")>> ELSE <<>>)
    \o OptionalStr(p, "doi", "entry", i)
    \o OptionalStr(p, "url", "entry", i)
    \o OptionalStr(p, "notes", "entry", i)
    \o (IF "tags" \in DOMAIN p.m THEN validate_tags(Get(p, "tags"), "entry", i)
        ELSE <<>>)

TutorialEntryErrors(t, i) ==
    require_keys(t, TUTORIAL_KEYS, "entry", i)
    \o PresentTyped(t, "id", is_str(t.m["id"]), "entry", i)
    \o PresentTyped(t, "title", is_str(t.m["title"]), "entry", i)
    \o EnumField(t, "level", TUTORIAL_LEVEL, "entry", i)
    \o EnumField(t, "format", TUTORIAL_FORMAT, "entry", i)
    \o PresentTyped(t, "est_time_min", is_int(t.m["est_time_min"]), "entry", i)
    \o validate_path_field(Get(t, "path"), "entry", i)
    \o EnumField(t, "status", TUTORIAL_STATUS, "entry", i)
    \o validate_tags(Get(t, "tags"), "entry", i)
    \o OptionalStr(t, "notes", "entry", i)
    \o (IF "prerequisites" \in DOMAIN t.m /\ t.m["prerequisites"] # VNull
           /\ (~is_list(t.m["prerequisites"]) \/ ~AllStr(t.m["prerequisites"]))
        THEN <<Err("entry", i, "type", "prerequisites")>> ELSE <<>>)

Kinds == <<"talks", "papers", "tutorials">>

EntryErrors(kind, e, i) ==
    CASE kind = "talks" -> TalkEntryErrors(e, i)
      [] kind = "papers" -> PaperEntryErrors(e, i)
      [] kind = "tutorials" -> TutorialEntryErrors(e, i)

\* for i, t in enumerate(items): a non-mapping entry gets one error and the
\* loop continues
RECURSIVE EntriesFrom(_, _, _)
EntriesFrom(kind, items, j) ==
    IF j > Len(items) THEN <<>>
    ELSE (IF ~is_dict(items[j]) THEN <<Err("entry", j - 1, "shape", "")>>
          ELSE EntryErrors(kind, items[j], j - 1))
         \o EntriesFrom(kind, items, j + 1)

(* validate_talks, validate_papers and validate_tutorials differ in the     *)
(* name of the list and in the entry checks only.                           *)
validate_collection(kind, data) ==
    IF ~is_dict(data)
    THEN [raised |-> FALSE, errors |-> <<Err("file", -1, "shape", "")>>]
    ELSE LET e1 == validate_repo_field(Get(data, "repo"), "file", -1)
             items == Get(data, kind) IN
         IF ~is_list(items)
         THEN [raised |-> FALSE, errors |-> e1 \o <<Err("file", -1, "type", kind)>>]
         ELSE LET u == validate_unique_ids(items.l) IN
              IF u.raised THEN [raised |-> TRUE, errors |-> e1 \o u.errors]
              ELSE [raised |-> FALSE,
                    errors |-> e1 \o u.errors \o EntriesFrom(kind, items.l, 1)]

validate_talks(data) == validate_collection("talks", data)

validate_papers(data) == validate_collection("papers", data)

validate_tutorials(data) == validate_collection("tutorials", data)

(* validate_file: a file is [parsed |-> FALSE] (load_yaml raises) or        *)
(* [parsed |-> TRUE, data |-> value].  An exception raised past the         *)
(* try/except of the load leaves validate_file without a result.            *)
validate_file(kind, file) ==
    IF ~file.parsed
    THEN [raised |-> FALSE, ok |-> FALSE, errors |-> <<Err("file", -1, "parse", "")>>]
    ELSE LET r == CASE kind = "talks" -> validate_talks(file.data)
                    [] kind = "papers" -> validate_papers(file.data)
                    [] kind = "tutorials" -> validate_tutorials(file.data)
                    [] OTHER -> [raised |-> FALSE,
                                 errors |-> <<Err("file", -1, "unknown", "")>>]
         IN [raised |-> r.raised, ok |-> ~r.raised /\ Len(r.errors) = 0,
             errors |-> r.errors]

----------------------------------------------------------------------------
(* main: the run over the three targets.                                    *)
(*   pc        "start" before the directory check, "loop" inside the for    *)
(*             loop (idx is the position of the next target), "done" after  *)
(*   out       the lines printed, each [tag, target, errs]                  *)
(*   exit_code the status the process ends with, -1 while it runs; an       *)
(*             exception that leaves main ends the process with status 1    *)
(*   results   what validate_file gave for each target                      *)

Line(tag, target, errs) == [tag |-> tag, target |-> target, errs |-> errs]

NoResult == [state |-> "none", ok |-> FALSE, errors |-> <<>>]

\* if not resources_dir.exists(): print ERROR; return 2
DirMissing ==
    /\ pc = "start"
    /\ ~dir_exists
    /\ out' = Append(out, Line("ERROR", "resources", <<>>))
    /\ exit_code' = 2
    /\ pc' = "done"
    /\ UNCHANGED <<strict, dir_exists, fs, idx, ok_all, any_found, results>>

\* targets = [...]; ok_all = True; any_found = False
EnterLoop ==
    /\ pc = "start"
    /\ dir_exists
    /\ pc' = "loop"
    /\ idx' = 1
    /\ ok_all' = TRUE
    /\ any_found' = FALSE
    /\ UNCHANGED <<strict, dir_exists, fs, out, exit_code, results>>

\* MissingTarget with a fault: strict mode only warns.
MissingTargetWarnOnly ==
    /\ pc = "loop"
    /\ idx <= Len(Kinds)
    /\ ~fs[Kinds[idx]].exists
    /\ out' = Append(out, Line("WARNING", Kinds[idx], <<>>))
    /\ idx' = idx + 1
    /\ UNCHANGED <<strict, dir_exists, fs, pc, ok_all, any_found, exit_code, results>>

\* if not f.exists(): ERROR and ok_all = False when strict, else WARNING; continue
MissingTarget ==
    /\ pc = "loop"
    /\ idx <= Len(Kinds)
    /\ ~fs[Kinds[idx]].exists
    /\ IF strict
       THEN /\ out' = Append(out, Line("ERROR", Kinds[idx], <<>>))
            /\ ok_all' = FALSE
       ELSE /\ out' = Append(out, Line("WARNING", Kinds[idx], <<>>))
            /\ ok_all' = ok_all
    /\ idx' = idx + 1
    /\ UNCHANGED <<strict, dir_exists, fs, pc, any_found, exit_code, results>>

\* any_found = True; ok, errs = validate_file(f); print OK or FAIL and the errors
ValidateTarget ==
    /\ pc = "loop"
    /\ idx <= Len(Kinds)
    /\ fs[Kinds[idx]].exists
    /\ any_found' = TRUE
    /\ LET k == Kinds[idx]
           r == validate_file(k, fs[k]) IN
       IF r.raised
       THEN /\ results' = [results EXCEPT ![k] =
                              [state |-> "raised", ok |-> FALSE, errors |-> <<>>]]
            /\ pc' = "done"
            /\ exit_code' = 1
            /\ UNCHANGED <<idx, ok_all, out>>
       ELSE /\ results' = [results EXCEPT ![k] =
                              [state |-> "done", ok |-> r.ok, errors |-> r.errors]]
            /\ IF r.ok
               THEN /\ out' = Append(out, Line("OK", k, <<>>))
                    /\ ok_all' = ok_all
               ELSE /\ out' = Append(out, Line("FAIL", k, r.errors))
                    /\ ok_all' = FALSE
            /\ idx' = idx + 1
            /\ UNCHANGED <<pc, exit_code>>
    /\ UNCHANGED <<strict, dir_exists, fs>>

\* Finish with a fault: strict mode returns 2 for any failure.
FinishStrictAlwaysTwo ==
    /\ pc = "loop"
    /\ idx > Len(Kinds)
    /\ IF strict /\ (~any_found \/ ~ok_all)
       THEN /\ out' = Append(out, Line("ERROR", "strict", <<>>))
            /\ exit_code' = 2
       ELSE /\ out' = out
            /\ exit_code' = IF ok_all THEN 0 ELSE 1
    /\ pc' = "done"
    /\ UNCHANGED <<strict, dir_exists, fs, idx, ok_all, any_found, results>>

\* after the loop: return 2 when strict and not any_found, else 0 if ok_all else 1
Finish ==
    /\ pc = "loop"
    /\ idx > Len(Kinds)
    /\ IF strict /\ ~any_found
       THEN /\ out' = Append(out, Line("ERROR", "strict", <<>>))
            /\ exit_code' = 2
       ELSE /\ out' = out
            /\ exit_code' = IF ok_all THEN 0 ELSE 1
    /\ pc' = "done"
    /\ UNCHANGED <<strict, dir_exists, fs, idx, ok_all, any_found, results>>

Next == DirMissing \/ EnterLoop \/ MissingTarget \/ ValidateTarget \/ Finish

----------------------------------------------------------------------------
(* The inputs: the contents of resources/.                                  *)

MaxSiblings == 1
MaxItems == 3

Absent == [exists |-> FALSE]
Unparseable == [exists |-> TRUE, parsed |-> FALSE]
Parsed(data) == [exists |-> TRUE, parsed |-> TRUE, data |-> data]

\* A root mapping with a repo value and the list of the kind.
Collection(kind, repo, items) ==
    Parsed(VMap([x \in {"repo", kind} |-> IF x = "repo" THEN repo ELSE VList(items)]))

BaseEvent ==
    [name |-> VStr("MolSys meeting"), location |-> VStr("Mexico City"),
     date |-> VStr("2024-01-15"), duration_min |-> VInt(45)]

\* A minimal conformant entry of each kind: the required keys only.
BaseEntry(kind, id) ==
    CASE kind = "talks" ->
           [id |-> VStr(id), title |-> VStr("Intro"), authors |-> VList(<<VStr("A. B.")>>),
            role |-> VStr("speaker"), event |-> VMap(BaseEvent),
            path |-> VStr("talks/intro"), tags |-> VList(<<VStr("md")>>),
            status |-> VStr("draft")]
      [] kind = "papers" ->
           [id |-> VStr(id), title |-> VStr("Intro"), authors |-> VList(<<VStr("A. B.")>>),
            year |-> VInt(2024), venue |-> VStr("JCTC"), status |-> VStr("idea"),
            path |-> VStr("papers/intro"), primary |-> VBool(TRUE),
            related_repos |-> VList(<<VStr("uibcdf/molsysmt")>>)]
      [] kind = "tutorials" ->
           [id |-> VStr(id), title |-> VStr("Intro"), level |-> VStr("beginner"),
            format |-> VStr("notebook"), est_time_min |-> VInt(30),
            path |-> VStr("tutorials/intro.md"), status |-> VStr("idea"),
            tags |-> VList(<<VStr("md")>>)]

Omit(m, k) == [x \in (DOMAIN m) \ {k} |-> m[x]]
Put(m, k, v) == [x \in (DOMAIN m) \cup {k} |-> IF x = k THEN v ELSE m[x]]

Range(q) == {q[j] : j \in 1..Len(q)}

RequiredKeys(kind) ==
    CASE kind = "talks" -> Range(TALK_KEYS)
      [] kind = "papers" -> Range(PAPER_KEYS)
      [] kind = "tutorials" -> Range(TUTORIAL_KEYS)

OptionalKeys == {"notes", "doi", "url", "tags", "prerequisites", "artifacts"}

\* The strings tried in the enum fields: every value some kind permits, and
\* two that none does.
EnumStrings ==
    {"draft", "idea", "planned", "ready", "delivered", "archived", "in_preparation",
     "submitted", "accepted", "published", "beginner", "intermediate", "advanced",
     "notebook", "markdown", "workshop", "Draft", "unknown"}

ValuePool ==
    {VNull, VBool(TRUE), VInt(-5), VInt(0), VInt(45), VFloat,
     VStr(""), VStr(" "), VStr("docs/a.md"), VStr("https://example.com/x"),
     VStr("o/r"), VStr("2024-01-15"), VStr("2024-1-15"),
     VList(<<>>), VList(<<VStr("o/r")>>), VList(<<VStr("x"), VInt(1)>>),
     VMap([k |-> VStr("v")]), VMap([k |-> VInt(1)])}

ValuesFor(k) ==
    IF k \in {"status", "level", "format"}
    THEN ValuePool \cup {VStr(x) : x \in EnumStrings}
    ELSE ValuePool

\* The base entry with at most one key omitted or given another value, at the
\* top level or (talks) inside the event mapping.
Variants(kind, id) ==
    LET base == BaseEntry(kind, id)
        keys == RequiredKeys(kind) \cup OptionalKeys
    IN {VMap(base)}
       \cup {VMap(Omit(base, k)) : k \in RequiredKeys(kind)}
       \cup UNION {{VMap(Put(base, k, v)) : v \in ValuesFor(k)} : k \in keys}
       \cup (IF kind # "talks" THEN {}
             ELSE {VMap(Put(base, "event", VMap(Omit(BaseEvent, k)))) : k \in Range(EVENT_KEYS)}
                  \cup UNION {{VMap(Put(base, "event", VMap(Put(BaseEvent, k, v)))) :
                                  v \in ValuePool} : k \in Range(EVENT_KEYS)})

\* The base entry with one required key omitted and another holding a value
\* of the wrong type.
TwoDefects(kind, id) ==
    {VMap(Omit(Put(BaseEntry(kind, id), k2, VFloat), k)) :
        k \in RequiredKeys(kind), k2 \in RequiredKeys(kind)}

SeqsUpTo(S, n) == UNION {[1..m -> S] : m \in 0..n}

Siblings(kind) == {VMap(BaseEntry(kind, "a")), VMap(BaseEntry(kind, "b")), VStr("stray")}

\* Entries that differ in their id only: two string ids, an integer id, no id,
\* and an entry that is no mapping.
IdItems(kind) ==
    {VMap(BaseEntry(kind, "a")), VMap(BaseEntry(kind, "b")),
     VMap(Put(BaseEntry(kind, "a"), "id", VInt(7))),
     VMap(Omit(BaseEntry(kind, "a"), "id")), VNull}

\* One varied entry among at most MaxSiblings others, or at most MaxItems
\* entries that differ in their id.
EntryLists(kind) ==
    {l[1] \o <<e>> \o l[2] :
        l \in {pp \in SeqsUpTo(Siblings(kind), MaxSiblings)
                          \X SeqsUpTo(Siblings(kind), MaxSiblings) :
                   Len(pp[1]) + Len(pp[2]) <= MaxSiblings},
        e \in Variants(kind, "a") \cup TwoDefects(kind, "a")}
    \cup SeqsUpTo(IdItems(kind), MaxItems)

RichFiles(kind) ==
    {Collection(kind, VStr("uibcdf/molsys-ai"), items) : items \in EntryLists(kind)}
    \cup {Unparseable}

\* A few files of each kind: absent, unreadable, of the wrong shape, valid,
\* invalid, and with an entry that is no mapping.
CoarseFiles(kind) ==
    {Absent, Unparseable,
     Parsed(VList(<<>>)),
     Parsed(VMap([repo |-> VStr("uibcdf/molsys-ai")])),
     Collection(kind, VStr("uibcdf/molsys-ai"), <<>>),
     Collection(kind, VStr("uibcdf/molsys-ai"), <<VMap(BaseEntry(kind, "a"))>>),
     Collection(kind, VStr("uibcdf molsys-ai"), <<VMap(BaseEntry(kind, "a"))>>),
     Collection(kind, VStr("uibcdf/molsys-ai"), <<VMap(Omit(BaseEntry(kind, "a"), "path"))>>),
     Collection(kind, VStr("uibcdf/molsys-ai"), <<VMap(BaseEntry(kind, "a")), VInt(3)>>)}

InitRun ==
    /\ pc = "start"
    /\ idx = 0
    /\ ok_all = TRUE
    /\ any_found = FALSE
    /\ out = <<>>
    /\ exit_code = -1
    /\ results = [k \in Range(Kinds) |-> NoResult]

\* Every combination of the flag, the directory and the three files; without
\* the directory there are no files.
Init ==
    /\ strict \in BOOLEAN
    /\ dir_exists \in BOOLEAN
    /\ fs \in [Range(Kinds) -> UNION {CoarseFiles(k) : k \in Range(Kinds)}]
    /\ \A k \in Range(Kinds) : fs[k] \in CoarseFiles(k)
    /\ ~dir_exists => \A k \in Range(Kinds) : fs[k] = Absent
    /\ InitRun

\* One file of one kind, with the rich contents; the other two are absent.
InitFile ==
    /\ strict = FALSE
    /\ dir_exists \in BOOLEAN
    /\ \E kind \in Range(Kinds) :
          \E f \in RichFiles(kind) \cup {Absent} :
             fs = [k \in Range(Kinds) |-> IF k = kind THEN f ELSE Absent]
    /\ ~dir_exists => \A k \in Range(Kinds) : fs[k] = Absent
    /\ InitRun

Spec == Init /\ [][Next]_vars

SpecFile == InitFile /\ [][Next]_vars

----------------------------------------------------------------------------
(* What the claims speak of. *)

KindSet == Range(Kinds)

Count(q, x) == Cardinality({j \in 1..Len(q) : q[j] = x})

\* The file parsed to a root mapping whose list of the kind is a list.
IsCollection(kind) ==
    /\ fs[kind].exists
    /\ fs[kind].parsed
    /\ is_dict(fs[kind].data)
    /\ is_list(Get(fs[kind].data, kind))

Items(kind) == Get(fs[kind].data, kind).l

AllMappings(items) == \A j \in 1..Len(items) : is_dict(items[j])

\* validate_file was called on the file of the kind
Visited(kind) == results[kind].state # "none"

\* The file is a collection of mappings and validate_file was called on it.
CheckedCollection(kind) ==
    Visited(kind) /\ IsCollection(kind) /\ AllMappings(Items(kind))

\* The errors reported for the entry at position j (index j - 1) by the checks
\* of the entry itself
EntryErrs(kind, j) ==
    SelectSeq(results[kind].errors,
              LAMBDA x : x.idx = j - 1 /\ x.scope # "file" /\ x.code # "dup")

Without(q, scope, k) == SelectSeq(q, LAMBDA x : ~(x.scope = scope /\ x.key = k))

\* What validating the file gives, whether or not the run came to it
Outcome(kind) == validate_file(kind, fs[kind])

FailsValidation(kind) == fs[kind].exists /\ (Outcome(kind).raised \/ ~Outcome(kind).ok)

SomeFound == \E k \in KindSet : fs[k].exists
SomeMissing == \E k \in KindSet : ~fs[k].exists
SomeFails == \E k \in KindSet : FailsValidation(k)

----------------------------------------------------------------------------
(* C1 as stated: exit code 0 means all present target files are valid, 1   *)
(* means at least one target file failed validation, 2 means the directory *)
(* is missing or strict mode found no target file.                         *)
C1_Original ==
    pc = "done" =>
        /\ exit_code \in {0, 1, 2}
        /\ exit_code = 2 <=> (~dir_exists \/ (strict /\ ~SomeFound))
        /\ exit_code = 1 <=> SomeFails
        /\ exit_code = 0 <=> (dir_exists /\ ~(strict /\ ~SomeFound) /\ ~SomeFails)

(* C1 as amended: exit code 1 also means that strict mode found a target   *)
(* file missing while at least one exists; 0 then needs, in strict mode,   *)
(* that no target file is missing.  A run that validate_file aborts ends   *)
(* with status 1, its file being one that fails validation.                *)
C1_ExitCodes ==
    pc = "done" =>
        /\ exit_code \in {0, 1, 2}
        /\ exit_code = 2 <=> (~dir_exists \/ (strict /\ ~SomeFound))
        /\ exit_code = 1 <=> (SomeFails \/ (strict /\ SomeMissing /\ SomeFound))
        /\ exit_code = 0 <=> (dir_exists /\ ~SomeFails /\ (~strict \/ ~SomeMissing))

C1_Witness ==
    /\ pc = "done"
    /\ strict /\ SomeMissing /\ SomeFound /\ ~SomeFails
    /\ exit_code = 1

----------------------------------------------------------------------------
OnlyValidPapers ==
    /\ dir_exists
    /\ fs["talks"] = Absent
    /\ fs["tutorials"] = Absent
    /\ fs["papers"] = Collection("papers", VStr("uibcdf/molsys-ai"),
                                 <<VMap(BaseEntry("papers", "a"))>>)

Tags(q) == [j \in 1..Len(q) |-> <<q[j].tag, q[j].target>>]

(* C2 as stated: with only a valid papers.yml, --strict gives exit code 2, *)
(* papers.yml still being validated and reported; without --strict the     *)
(* exit code is 0, with one OK line and a WARNING line for each absent     *)
(* file.                                                                   *)
C2_Original ==
    (pc = "done" /\ OnlyValidPapers) =>
        IF strict
        THEN /\ exit_code = 2
             /\ Visited("papers")
             /\ \E j \in 1..Len(out) : out[j].target = "papers" /\ out[j].tag \in {"OK", "FAIL"}
        ELSE /\ exit_code = 0
             /\ Tags(out) = <<<<"WARNING", "talks">>, <<"OK", "papers">>,
                              <<"WARNING", "tutorials">>>>

(* C2 as amended: with --strict the exit code is 1, the two absent files   *)
(* each get an ERROR line and papers.yml its OK line; without --strict as  *)
(* stated.                                                                 *)
C2_StrictOnlyPapers ==
    (pc = "done" /\ OnlyValidPapers) =>
        IF strict
        THEN /\ exit_code = 1
             /\ results["papers"].state = "done" /\ results["papers"].ok
             /\ Tags(out) = <<<<"ERROR", "talks">>, <<"OK", "papers">>,
                              <<"ERROR", "tutorials">>>>
        ELSE /\ exit_code = 0
             /\ Tags(out) = <<<<"WARNING", "talks">>, <<"OK", "papers">>,
                              <<"WARNING", "tutorials">>>>

C2_Witness == pc = "done" /\ OnlyValidPapers /\ strict /\ exit_code = 1 /\ Len(out) = 3

----------------------------------------------------------------------------
(* C3: an entry that is not a mapping gets one error and none of the field *)
(* checks, and validation of the file still completes with an error list:  *)
(* whenever validate_file was called on a file whose list of the kind is a *)
(* list, it returned, and each entry that is not a mapping has exactly its *)
(* must-be-a-mapping error.                                                *)
C3_NonMappingReported ==
    \A kind \in KindSet :
        (Visited(kind) /\ IsCollection(kind)) =>
            /\ results[kind].state = "done"
            /\ \A j \in 1..Len(Items(kind)) :
                  ~is_dict(Items(kind)[j]) =>
                      EntryErrs(kind, j) = <<Err("entry", j - 1, "shape", "")>>

----------------------------------------------------------------------------
\* The entry with the missing key k given back the value of the base entry
Restored(kind, e, k) == VMap(Put(e.m, k, BaseEntry(kind, "a")[k]))

RestoredEvent(e, k) == VMap(Put(e.m, "event", VMap(Put(e.m["event"].m, k, BaseEvent[k]))))

(* C4: in every collection of mappings, each required key an entry lacks   *)
(* (a key of the event mapping included) is reported by exactly one        *)
(* missing-required-key error naming the key and the entry's index, a key  *)
(* the entry has is reported by none, and the other errors of the entry    *)
(* are those it has with the key present.                                  *)
C4_MissingKeyReported ==
    \A kind \in KindSet :
        CheckedCollection(kind) =>
            /\ results[kind].state = "done"
            /\ \A j \in 1..Len(Items(kind)) :
                  LET e == Items(kind)[j] IN
                  /\ \A k \in RequiredKeys(kind) :
                        IF k \in DOMAIN e.m
                        THEN Count(results[kind].errors, Err("entry", j - 1, "missing", k)) = 0
                        ELSE /\ Count(results[kind].errors, Err("entry", j - 1, "missing", k)) = 1
                             /\ Without(Without(EntryErrs(kind, j), "entry", k), "event", k)
                                = Without(Without(EntryErrors(kind, Restored(kind, e, k), j - 1),
                                                  "entry", k), "event", k)
                  /\ (kind = "talks" /\ is_dict(Get(e, "event"))) =>
                        \A k \in Range(EVENT_KEYS) :
                            IF k \in DOMAIN e.m["event"].m
                            THEN Count(results[kind].errors, Err("event", j - 1, "missing", k)) = 0
                            ELSE /\ Count(results[kind].errors, Err("event", j - 1, "missing", k)) = 1
                                 /\ Without(EntryErrs(kind, j), "event", k)
                                    = Without(EntryErrors(kind, RestoredEvent(e, k), j - 1),
                                              "event", k)

\* An entry lacks a required key and holds a wrong value under another: both
\* are reported.
C4_Witness ==
    \E kind \in KindSet :
        /\ CheckedCollection(kind)
        /\ \E j \in 1..Len(Items(kind)) :
              /\ "title" \notin DOMAIN Items(kind)[j].m
              /\ Count(results[kind].errors, Err("entry", j - 1, "missing", "title")) = 1
              /\ Count(results[kind].errors, Err("entry", j - 1, "type", "id")) = 1

----------------------------------------------------------------------------
\* The entry at position j repeats the string id of an earlier entry
Repeats(items, j) ==
    /\ is_str(Get(items[j], "id"))
    /\ \E i \in 1..(j - 1) : Get(items[i], "id") = Get(items[j], "id")

DupErrs(kind) == SelectSeq(results[kind].errors, LAMBDA x : x.code = "dup")

(* C5: in every collection of mappings the duplicate-id errors are exactly *)
(* one for each entry whose string id occurred before, naming that entry's *)
(* index (none when the string ids are all different, n - 1 for an id that *)
(* occurs n times), and every entry still gets its own checks.             *)
C5_DuplicateIds ==
    \A kind \in KindSet :
        CheckedCollection(kind) =>
            /\ results[kind].state = "done"
            /\ Len(DupErrs(kind)) = Cardinality({j \in 1..Len(Items(kind)) : Repeats(Items(kind), j)})
            /\ \A j \in 1..Len(Items(kind)) :
                  /\ Count(results[kind].errors, Err("entry", j - 1, "dup", "id"))
                     = IF Repeats(Items(kind), j) THEN 1 ELSE 0
                  /\ EntryErrs(kind, j) = EntryErrors(kind, Items(kind)[j], j - 1)

\* Three entries with the same id: two duplicate-id errors.
C5_Witness ==
    \E kind \in KindSet :
        /\ CheckedCollection(kind)
        /\ Len(Items(kind)) = 3
        /\ \A j \in 1..3 : Get(Items(kind)[j], "id") = VStr("a")
        /\ Len(DupErrs(kind)) = 2

----------------------------------------------------------------------------
\* The optional fields the checks of each kind know
OptionalOf(kind) ==
    CASE kind = "talks" -> {"notes"}
      [] kind = "papers" -> {"doi", "url", "notes", "tags"}
      [] kind = "tutorials" -> {"notes", "prerequisites"}

\* The value has the type the optional field asks for
OptionalTypeOk(k, v) ==
    IF k \in {"tags", "prerequisites"} THEN is_list(v) /\ AllStr(v) ELSE is_str(v)

FieldErrs(kind, j, k) ==
    SelectSeq(EntryErrs(kind, j), LAMBDA x : x.scope = "entry" /\ x.key = k)

(* C6 as stated: an optional field that is present must hold a non-null    *)
(* value of the right type or an error is reported for it; an absent one   *)
(* gets no error.                                                          *)
C6_Original ==
    \A kind \in KindSet :
        CheckedCollection(kind) =>
            \A j \in 1..Len(Items(kind)) : \A k \in OptionalOf(kind) :
                LET e == Items(kind)[j] IN
                IF k \in DOMAIN e.m
                THEN (e.m[k] = VNull \/ ~OptionalTypeOk(k, e.m[k])) => Len(FieldErrs(kind, j, k)) >= 1
                ELSE Len(FieldErrs(kind, j, k)) = 0

(* C6 as amended: an optional field of the kind (notes everywhere; doi,    *)
(* url and tags in papers; prerequisites in tutorials) that is present     *)
(* with a value that is neither null nor of the right type gets exactly    *)
(* one error; one that is absent, null or of the right type gets none.     *)
C6_OptionalFields ==
    \A kind \in KindSet :
        CheckedCollection(kind) =>
            \A j \in 1..Len(Items(kind)) : \A k \in OptionalOf(kind) :
                LET e == Items(kind)[j] IN
                Len(FieldErrs(kind, j, k))
                = IF k \in DOMAIN e.m /\ e.m[k] # VNull /\ ~OptionalTypeOk(k, e.m[k])
                  THEN 1 ELSE 0

\* A papers entry with tags: null, and a file that passes.
C6_Witness ==
    /\ CheckedCollection("papers")
    /\ \E j \in 1..Len(Items("papers")) :
          /\ "tags" \in DOMAIN Items("papers")[j].m
          /\ Items("papers")[j].m["tags"] = VNull
    /\ results["papers"].state = "done"
    /\ results["papers"].ok

----------------------------------------------------------------------------
StrAt(m, k) == k \in DOMAIN m /\ is_str(m[k])
IntAt(m, k) == k \in DOMAIN m /\ m[k].t = "int"
StrListAt(m, k) == k \in DOMAIN m /\ is_list(m[k]) /\ AllStr(m[k])
EnumAt(m, k, allowed) == StrAt(m, k) /\ m[k].s \in allowed
PathAt(m, k) == StrAt(m, k) /\ ~StripIsEmpty(m[k].s) /\ ~HasScheme(m[k].s)

\* A minimal entry: the required fields and no other, each of the type and
\* form section 4 of the specification gives it.
MinimalConformant(kind, e) ==
    /\ is_dict(e)
    /\ DOMAIN e.m = RequiredKeys(kind)
    /\ StrAt(e.m, "id") /\ StrAt(e.m, "title") /\ PathAt(e.m, "path")
    /\ CASE kind = "talks" ->
              /\ StrListAt(e.m, "authors") /\ StrAt(e.m, "role") /\ StrListAt(e.m, "tags")
              /\ EnumAt(e.m, "status", {"draft", "idea", "planned", "ready", "delivered", "archived"})
              /\ is_dict(e.m["event"])
              /\ DOMAIN e.m["event"].m = Range(EVENT_KEYS)
              /\ StrAt(e.m["event"].m, "name") /\ StrAt(e.m["event"].m, "location")
              /\ StrAt(e.m["event"].m, "date") /\ IsoDateCore(e.m["event"].m["date"].s)
              /\ IntAt(e.m["event"].m, "duration_min")
         [] kind = "papers" ->
              /\ StrListAt(e.m, "authors") /\ IntAt(e.m, "year") /\ StrAt(e.m, "venue")
              /\ EnumAt(e.m, "status", {"idea", "in_preparation", "submitted", "accepted",
                                        "published", "archived"})
              /\ is_bool(e.m["primary"])
              /\ is_list(e.m["related_repos"])
              /\ \A j \in 1..Len(e.m["related_repos"].l) :
                    is_str(e.m["related_repos"].l[j]) /\ RepoCore(e.m["related_repos"].l[j].s)
         [] kind = "tutorials" ->
              /\ EnumAt(e.m, "level", {"beginner", "intermediate", "advanced"})
              /\ EnumAt(e.m, "format", {"notebook", "markdown", "workshop"})
              /\ IntAt(e.m, "est_time_min") /\ StrListAt(e.m, "tags")
              /\ EnumAt(e.m, "status", {"idea", "planned", "draft", "ready", "archived"})

OneMinimalEntry(kind) ==
    /\ Visited(kind)
    /\ IsCollection(kind)
    /\ is_str(Get(fs[kind].data, "repo")) /\ RepoCore(Get(fs[kind].data, "repo").s)
    /\ Len(Items(kind)) = 1
    /\ MinimalConformant(kind, Items(kind)[1])

(* C7: a file whose root is a mapping with an org/repo value and whose     *)
(* list holds one minimal conformant entry gets no error: validate_file    *)
(* returns ok = true.                                                      *)
C7_MinimalEntryPasses ==
    \A kind \in KindSet :
        OneMinimalEntry(kind) =>
            /\ results[kind].state = "done"
            /\ results[kind].ok
            /\ results[kind].errors = <<>>

\* A talk whose status is the last of the permitted values passes.
C7_Witness ==
    /\ OneMinimalEntry("talks")
    /\ Items("talks")[1].m["status"] = VStr("delivered")
    /\ results["talks"].ok

----------------------------------------------------------------------------
\* The talk at position j has an event mapping with a duration_min
HasDuration(j) ==
    /\ is_dict(Get(Items("talks")[j], "event"))
    /\ "duration_min" \in DOMAIN Items("talks")[j].m["event"].m

Duration(j) == Items("talks")[j].m["event"].m["duration_min"]

DurationErrs(j) ==
    SelectSeq(EntryErrs("talks", j), LAMBDA x : x.scope = "event" /\ x.key = "duration_min")

(* C8 as stated: a duration_min that is a negative integer, a boolean or   *)
(* no integer is reported with an error, and every non-negative integer is *)
(* accepted.                                                               *)
C8_Original ==
    CheckedCollection("talks") =>
        \A j \in 1..Len(Items("talks")) :
            HasDuration(j) =>
                IF Duration(j).t = "int" /\ Duration(j).i >= 0
                THEN Len(DurationErrs(j)) = 0
                ELSE Len(DurationErrs(j)) >= 1

(* C8 as amended: a duration_min that is a boolean or no integer is        *)
(* reported with exactly one error, and every integer, negative ones       *)
(* included, is accepted.                                                  *)
C8_DurationIsInteger ==
    CheckedCollection("talks") =>
        \A j \in 1..Len(Items("talks")) :
            HasDuration(j) =>
                Len(DurationErrs(j)) = IF Duration(j).t = "int" THEN 0 ELSE 1

\* A talk of -5 minutes passes.
C8_Witness ==
    /\ CheckedCollection("talks")
    /\ \E j \in 1..Len(Items("talks")) :
          HasDuration(j) /\ Duration(j) = VInt(-5) /\ Len(DurationErrs(j)) = 0
    /\ results["talks"].ok

----------------------------------------------------------------------------
\* The OK and FAIL lines printed
FileLines == SelectSeq(out, LAMBDA x : x.tag \in {"OK", "FAIL"})

\* The targets that exist, in the order of the targets
Existing == SelectSeq(Kinds, LAMBDA k : fs[k].exists)

(* C9: in every run where the directory exists, every existing target is   *)
(* validated, in the order talks, papers, tutorials and whatever happened  *)
(* to the earlier ones, with exactly one OK or FAIL line each: OK if and   *)
(* only if the file has no error, and FAIL with exactly one error for a    *)
(* file that does not parse.                                               *)
C9_EveryTargetReported ==
    (pc = "done" /\ dir_exists) =>
        /\ Len(FileLines) = Len(Existing)
        /\ \A j \in 1..Len(Existing) :
              /\ j <= Len(FileLines)
              /\ FileLines[j].target = Existing[j]
              /\ results[Existing[j]].state = "done"
              /\ FileLines[j].tag = "OK" <=> Len(results[Existing[j]].errors) = 0
              /\ ~fs[Existing[j]].parsed =>
                    FileLines[j].tag = "FAIL" /\ Len(FileLines[j].errs) = 1

----------------------------------------------------------------------------
TwoErrorKeys == {"authors", "event", "path", "status", "primary", "related_repos",
                 "level", "format"}
OneErrorKeys == {"id", "title", "role", "year", "venue", "est_time_min", "tags"}

(* C10: omitting one required key from an otherwise conformant entry gives *)
(* two errors, the missing-key error and one more for the same key, when   *)
(* the key is authors, event, path, status, primary, related_repos, level  *)
(* or format, and the missing-key error alone when it is id, title, role,  *)
(* year, venue, est_time_min or tags.                                      *)
C10_ErrorsPerOmittedKey ==
    \A kind \in KindSet :
        CheckedCollection(kind) =>
            \A j \in 1..Len(Items(kind)) : \A k \in RequiredKeys(kind) : \A id \in {"a", "b"} :
                Items(kind)[j] = VMap(Omit(BaseEntry(kind, id), k)) =>
                    /\ k \in TwoErrorKeys \cup OneErrorKeys
                    /\ Len(EntryErrs(kind, j)) = IF k \in TwoErrorKeys THEN 2 ELSE 1
                    /\ EntryErrs(kind, j)[1] = Err("entry", j - 1, "missing", k)
                    /\ \A n \in 1..Len(EntryErrs(kind, j)) : EntryErrs(kind, j)[n].key = k

\* A paper without its path: two errors.
C10_Witness ==
    /\ CheckedCollection("papers")
    /\ \E j \in 1..Len(Items("papers")) :
          /\ Items("papers")[j] = VMap(Omit(BaseEntry("papers", "a"), "path"))
          /\ Len(EntryErrs("papers", j)) = 2

=============================================================================
